---- MODULE Spec2Model ----
(***************************************************************************)
(* Anvaya CRM API (src/server.js): an express application over four         *)
(* mongoose collections (Lead, SalesAgent, Comment, Tag).                   *)
(*                                                                          *)
(* Encoding of values                                                       *)
(*   - a request value that is used as an identifier is a pair:             *)
(*       <<c, n>>      the 24-hex-digit string of the n-th ObjectId the     *)
(*                     store issued (or would issue) in collection c;       *)
(*       <<"str", k>>  a string of length k that is no ObjectId            *)
(*                     (<<"str", 0>> is the empty string "");               *)
(*   - a JavaScript object (request body, query string, document) is a      *)
(*     function whose DOMAIN is the set of properties that are defined:     *)
(*     a property that is undefined is absent from the DOMAIN;              *)
(*   - a message is a sequence of message parts, string concatenation is    *)
(*     \o on those sequences;                                               *)
(*   - Date.now() is the single abstract timestamp DateNow.                 *)
(***************************************************************************)
EXTENDS Integers, Sequences, FiniteSets, TLC

VARIABLES
    agents,     \* SalesAgent collection: _id -> document
    leads,      \* Lead collection: _id -> document
    comments,   \* Comment collection: _id -> document
    tags,       \* Tag collection: _id -> document
    nextLead,   \* number of Lead _ids issued so far (deleted ids are not reused)
    last,       \* the last request handled to completion, with what it sent
    reqs        \* in-flight requests of the interleaved specification

vars == <<agents, leads, comments, tags, nextLead, last, reqs>>

store == <<agents, leads, comments, tags, nextLead>>

(***************************************************************************)
(* Bounds of the model.                                                     *)
(***************************************************************************)
MaxAgents == 2
MaxLeads == 2
MaxComments == 1
MaxTags == 1
MaxRequests == 3

(***************************************************************************)
(* Values.                                                                  *)
(***************************************************************************)
Oid(c, n) == <<c, n>>

Str(k) == <<"str", k>>

EmptyString == Str(0)

NotAnId == Str(9)

EmptyObj == [f \in {} |-> ""]

DateNow == "now"

Has(obj, f) == f \in DOMAIN obj

Without(obj, f) == [g \in DOMAIN obj \ {f} |-> obj[g]]

\* JavaScript truthiness of obj.f: undefined and the empty string are falsy.
\* TruthyId reads a property whose value is an identifier or another string
\* given in its place, TruthyStr one whose value is a plain string.
TruthyId(obj, f) == Has(obj, f) /\ obj[f] # EmptyString

TruthyStr(obj, f) == Has(obj, f) /\ obj[f] # ""

\* mongoose.Types.ObjectId.isValid(obj.f): the value is defined and has the
\* identifier format.
ObjectIdIsValid(obj, f) == Has(obj, f) /\ obj[f][1] # "str"

\* An application failure: a thrown object literal {type, message}.
Failure(type, message) ==
    [ok |-> FALSE, name |-> "", type |-> type, code |-> 0, message |-> message,
     calls |-> <<>>, raised |-> ""]

\* A failure thrown by mongoose or by the driver: an Error with a name, maybe a
\* code, and no type property. `raised` keeps the name of the library error
\* behind a result through the catch blocks that replace or swallow it.
LibraryError(name, code, message) ==
    [ok |-> FALSE, name |-> name, type |-> "", code |-> code, message |-> message,
     calls |-> <<>>, raised |-> name]

Return(value) == [ok |-> TRUE, value |-> value, calls |-> <<>>, raised |-> ""]

\* A function that ends without a return statement returns undefined.
Undefined ==
    [ok |-> TRUE, value |-> EmptyObj, calls |-> <<>>, raised |-> "", undefined |-> TRUE]

IsUndefined(r) == r.ok /\ Has(r, "undefined")

\* The persistence calls a domain operation made before it returned or threw,
\* in order.
Calling(calls, r) == [r EXCEPT !.calls = calls]

\* What a catch block makes of the error e it caught.
Caught(e, r) == [r EXCEPT !.calls = e.calls, !.raised = e.raised]

\* The store rejecting a call (connection lost, server selection timed out).
StoreDown == LibraryError("MongoNetworkError", 0, <<"connection lost">>)

CastError(path) == LibraryError("CastError", 0, <<"Cast to ObjectId failed", path>>)

ValidationError(messages) == LibraryError("ValidationError", 0, messages)

\* errors.join('. ')
RECURSIVE Join(_)
Join(messages) ==
    IF Len(messages) <= 1 THEN messages
    ELSE <<Head(messages), ". ">> \o Join(Tail(messages))

\* The catch block shared by createNewLead, updateLead, addComments, addNewTag:
\* a ValidationError becomes INVALID_INPUT with the joined messages, anything
\* else is thrown again unchanged.
CatchValidationError(e) ==
    IF e.name = "ValidationError"
    THEN Caught(e, Failure("INVALID_INPUT", <<"Invalid Input: ">> \o Join(e.message)))
    ELSE e

(***************************************************************************)
(* Entity schemas (models/*.model.js in the repository, section 3 of the    *)
(* specification): validation as mongoose runs it before an insert.         *)
(***************************************************************************)
LeadSources == {"Website", "Referral", "Cold Call", "Advertisement", "Email", "Other"}

LeadStatuses == {"New", "Contacted", "Qualified", "Proposal Sent", "Closed"}

LeadPaths == <<"name", "source", "salesAgent", "status", "timeToClose">>

\* Whether the value given for a path of the Lead schema violates it. A path
\* that is absent violates only `required`.
LeadPathViolated(doc, path) ==
    CASE path = "name" -> ~Has(doc, "name") \/ doc.name = ""
      [] path = "source" -> ~Has(doc, "source") \/ doc.source \notin LeadSources
      [] path = "salesAgent" -> ~Has(doc, "salesAgent")
      [] path = "status" -> Has(doc, "status") /\ doc.status \notin LeadStatuses
      [] path = "timeToClose" -> ~Has(doc, "timeToClose")
      [] OTHER -> FALSE

LeadPathMessage(path) == "Lead validation failed: " \o path

\* The messages of the ValidationError of a new Lead, in schema order.
LeadSchemaErrors(doc) ==
    LET bad == SelectSeq(LeadPaths, LAMBDA p : LeadPathViolated(doc, p))
    IN  [i \in 1..Len(bad) |-> LeadPathMessage(bad[i])]

\* Schema defaults applied by `new Lead(...)`: status New, tags [].
LeadDefaults == [status |-> "New", tags |-> {}]

AgentPaths == <<"name", "email">>

AgentSchemaErrors(doc) ==
    LET bad == SelectSeq(AgentPaths, LAMBDA p : ~Has(doc, p) \/ doc[p] = "")
    IN  [i \in 1..Len(bad) |-> "SalesAgent validation failed: " \o bad[i]]

\* The unique index on SalesAgent.email: an insert of a second document with
\* the same email is rejected by the store with code 11000.
EmailTaken(coll, email) == \E a \in DOMAIN coll : coll[a].email = email

DuplicateKeyError == LibraryError("MongoServerError", 11000, <<"E11000 duplicate key error">>)

(***************************************************************************)
(* Leads API (1): Create a New Lead.                                        *)
(***************************************************************************)
\* new Lead({...}) with closedAt set when status is Closed (lines 32-44).
NewLead(id, details) ==
    LET given == [f \in (DOMAIN details \cap
                         {"name", "source", "salesAgent", "status", "tags", "timeToClose", "priority"})
                    |-> details[f]]
        doc == ("id" :> id) @@ given @@ LeadDefaults
    IN  IF Has(details, "status") /\ details.status = "Closed"
        THEN doc @@ ("closedAt" :> DateNow)
        ELSE doc
\* createNewLeadTry without the check of line 31: the Lead is built whether or
\* not the agent was found.
createNewLeadTry_NoAgentCheck(details, down) ==
    IF ~ObjectIdIsValid(details, "salesAgent")
    THEN Failure("INVALID_ID_FORMAT", <<"Invalid ID Format.">>)
    ELSE IF down THEN Calling(<<"SalesAgent.findById">>, StoreDown)
    ELSE LET newLead == NewLead(Oid("lead", nextLead + 1), details)
             errors == LeadSchemaErrors(newLead)
         IN  Calling(<<"SalesAgent.findById", "Lead.save">>,
                     IF errors # <<>> THEN ValidationError(errors) ELSE Return(newLead))

\* The try block of createNewLead; `down` is the store rejecting its calls.
createNewLeadTry(details, down) ==
    IF ~ObjectIdIsValid(details, "salesAgent")
    THEN Failure("INVALID_ID_FORMAT", <<"Invalid ID Format.">>)
    ELSE IF down THEN Calling(<<"SalesAgent.findById">>, StoreDown)
    ELSE IF details.salesAgent \in DOMAIN agents
    THEN LET newLead == NewLead(Oid("lead", nextLead + 1), details)
             errors == LeadSchemaErrors(newLead)
         IN  Calling(<<"SalesAgent.findById", "Lead.save">>,
                     IF errors # <<>> THEN ValidationError(errors) ELSE Return(newLead))
    ELSE Calling(<<"SalesAgent.findById">>,
                 Failure("NOT_FOUND", <<"Sales agent with ID ", "${salesAgent}", " not found.">>))

createNewLead(details, down) ==
    LET r == createNewLeadTry(details, down)
    IN  IF r.ok THEN r ELSE CatchValidationError(r)

\* res.status(code).json(body): the responses a route handler sent.
Send(code, body) == <<[status |-> code, body |-> body]>>

NoResponse == <<>>

\* app.post('/leads')
PostLeads(r) ==
    IF r.ok
    THEN IF Has(r.value, "name") /\ r.value.name # "" THEN Send(201, r.value) ELSE NoResponse
    ELSE CASE r.type = "INVALID_ID_FORMAT" -> Send(400, r.message)
           [] r.type = "NOT_FOUND" -> Send(404, r.message)
           [] r.type = "INVALID_INPUT" -> Send(400, r.message)
           [] OTHER -> Send(500, <<"Server Error.">>)

Handled(op, req, down, r, sent) ==
    [op |-> op, req |-> req, down |-> down, result |-> r, sent |-> sent]

CreateLead(details, down) ==
    LET r == createNewLead(details, down)
    IN  /\ r.ok => nextLead < MaxLeads
        /\ leads' = IF r.ok THEN (r.value.id :> r.value) @@ leads ELSE leads
        /\ nextLead' = IF r.ok THEN nextLead + 1 ELSE nextLead
        /\ last' = Handled("POST /leads", [body |-> details], down, r, PostLeads(r))
        /\ UNCHANGED <<agents, comments, tags, reqs>>

(***************************************************************************)
(* Sales Agent API (1): Create a New Sales Agent.                           *)
(***************************************************************************)
\* newAgent.save(): validation, then the insert under the unique index.
SaveAgent(coll, id, agentData, down) ==
    LET newAgent == ("id" :> id) @@
                    [f \in DOMAIN agentData \cap {"name", "email"} |-> agentData[f]]
        errors == AgentSchemaErrors(newAgent)
    IN  Calling(<<"SalesAgent.save">>,
                IF errors # <<>> THEN ValidationError(errors)
                ELSE IF down THEN StoreDown
                ELSE IF EmailTaken(coll, newAgent.email) THEN DuplicateKeyError
                ELSE Return(newAgent))
\* createNewSalesAgentCatch without the test of error.code (line 275): a
\* duplicate key is swallowed like any other error.
createNewSalesAgentCatch_NoDuplicateKey(e) ==
    IF e.name = "ValidationError"
    THEN Caught(e, Failure("INVALID_INPUT", <<"Invalid Input: ">> \o Join(e.message)))
    ELSE Caught(e, Undefined)

\* The catch block of createNewSalesAgent: it throws for a ValidationError and
\* for code 11000 and otherwise falls off its end, so the function returns
\* undefined.
createNewSalesAgentCatch(e) ==
    IF e.name = "ValidationError"
    THEN Caught(e, Failure("INVALID_INPUT", <<"Invalid Input: ">> \o Join(e.message)))
    ELSE IF e.code = 11000
    THEN Caught(e, Failure("DUPLICATE_KEY",
                 <<"Sales agent with email '", "${agentData.email}", "' already exists.'">>))
    ELSE Caught(e, Undefined)

createNewSalesAgent(coll, id, agentData, down) ==
    LET r == SaveAgent(coll, id, agentData, down)
    IN  IF r.ok THEN r ELSE createNewSalesAgentCatch(r)

\* app.post('/agents')
PostAgents(r) ==
    IF r.ok
    THEN IF ~IsUndefined(r) THEN Send(201, r.value) ELSE NoResponse
    ELSE CASE r.type = "INVALID_INPUT" -> Send(400, r.message)
           [] r.type = "DUPLICATE_KEY" -> Send(409, r.message)
           [] OTHER -> Send(500, <<"Server Error.">>)

Saved(r) == r.ok /\ ~IsUndefined(r)

CreateAgent(agentData, down) ==
    LET id == Oid("agent", Cardinality(DOMAIN agents) + 1)
        r == createNewSalesAgent(agents, id, agentData, down)
    IN  /\ Saved(r) => Cardinality(DOMAIN agents) < MaxAgents
        /\ agents' = IF Saved(r) THEN (id :> r.value) @@ agents ELSE agents
        /\ last' = Handled("POST /agents", [body |-> agentData], down, r, PostAgents(r))
        /\ UNCHANGED <<leads, comments, tags, nextLead, reqs>>

(***************************************************************************)
(* Leads API (2): Get All Leads.                                            *)
(***************************************************************************)
SalesAgentFilterMessage == "Invalid sales agent ObjectId."

StatusFilterMessage ==
    "'status' must be one of ['New', 'Contacted', 'Qualified', 'Proposal Sent', 'Closed']."

SourceFilterMessage ==
    "'source' must be one of ['Website', 'Referral', 'Cold Call', 'Advertisement', 'Email', 'Other']"

\* Lines 97-125: what each filter appends to errorObj.message.
SalesAgentFilterError(query) ==
    IF TruthyId(query, "salesAgent") /\ ~ObjectIdIsValid(query, "salesAgent")
    THEN <<SalesAgentFilterMessage>> ELSE <<>>

StatusFilterError(query) ==
    IF TruthyStr(query, "status") /\ query.status \notin LeadStatuses
    THEN <<StatusFilterMessage>> ELSE <<>>

SourceFilterError(query) ==
    IF TruthyStr(query, "source") /\ query.source \notin LeadSources
    THEN <<SourceFilterMessage>> ELSE <<>>
\* FilterErrorMessage with `=` for `+=`: each violated filter overwrites the
\* message of the one before it.
FilterErrorMessage_Overwrite(query) ==
    LET parts == SalesAgentFilterError(query) \o StatusFilterError(query)
                     \o SourceFilterError(query)
    IN  IF parts = <<>> THEN <<"Invalid input: ">> ELSE <<parts[Len(parts)]>>

FilterErrorMessage(query) ==
    <<"Invalid input: ">> \o SalesAgentFilterError(query) \o StatusFilterError(query)
        \o SourceFilterError(query)

\* queryObj as lines 97-125 build it: the filters that are truthy and valid.
QueryObj(query) ==
    [f \in {g \in {"salesAgent", "status", "tags", "source"} :
              /\ Has(query, g)
              /\ CASE g = "salesAgent" -> TruthyId(query, g) /\ ObjectIdIsValid(query, g)
                   [] g = "status" -> TruthyStr(query, g) /\ query.status \in LeadStatuses
                   [] g = "tags" -> TruthyId(query, g)
                   [] g = "source" -> TruthyStr(query, g) /\ query.source \in LeadSources}
       |-> query[f]]

\* Whether a document matches a filter object, as the store evaluates it:
\* equality on a scalar path, membership on the array path tags.
Matches(doc, filter) ==
    \A f \in DOMAIN filter :
        IF f = "tags" THEN filter[f] \in doc.tags
        ELSE Has(doc, f) /\ doc[f] = filter[f]

\* A filter value mongoose cannot cast to the ObjectId its path holds.
FilterCastFails(filter) ==
    \E f \in DOMAIN filter \cap {"salesAgent", "tags"} : filter[f][1] = "str"

\* populate('salesAgent', 'name'): the reference replaced by {id, name} of the
\* agent, or by null when no such agent exists.
Null == [null |-> TRUE]

Populate(doc) ==
    [doc EXCEPT !.salesAgent =
        IF @ \in DOMAIN agents THEN [id |-> @, name |-> agents[@].name] ELSE Null]

\* Lead.find(filter).populate('salesAgent', 'name')
FindLeads(filter) ==
    IF FilterCastFails(filter) THEN CastError("filter")
    ELSE Return({Populate(leads[l]) : l \in {k \in DOMAIN leads : Matches(leads[k], filter)}})

\* The filter object line 130 hands to Lead.find.
FindArgument(query) == query

getAllLeads(query, down) ==
    IF FilterErrorMessage(query) # <<"Invalid input: ">>
    THEN Failure("INVALID_INPUT", FilterErrorMessage(query))
    ELSE IF down THEN Calling(<<"Lead.find">>, StoreDown)
    ELSE LET allLeads == FindLeads(FindArgument(query))
         IN  Calling(<<"Lead.find">>,
                     IF ~allLeads.ok THEN allLeads
                     ELSE IF allLeads.value # {} THEN allLeads
                     ELSE Failure("NOT_FOUND", <<"Lead Data Not Found.">>))

\* app.get('/leads'): the switch has no default case.
GetLeads(r) ==
    IF r.ok THEN Send(200, r.value)
    ELSE CASE r.type = "INVALID_INPUT" -> Send(400, r.message)
           [] r.type = "NOT_FOUND" -> Send(404, r.message)
           [] OTHER -> NoResponse

ListLeads(query, down) ==
    LET r == getAllLeads(query, down)
    IN  /\ last' = Handled("GET /leads", [query |-> query], down, r, GetLeads(r))
        /\ UNCHANGED <<agents, leads, comments, tags, nextLead, reqs>>

(***************************************************************************)
(* Leads API (3): Update a Lead.                                            *)
(***************************************************************************)
\* Update validators (runValidators: true) run on the paths the update sets.
UpdateSchemaErrors(dataToUpdate) ==
    LET bad == SelectSeq(LeadPaths, LAMBDA p : Has(dataToUpdate, p) /\ LeadPathViolated(dataToUpdate, p))
    IN  [i \in 1..Len(bad) |-> LeadPathMessage(bad[i])]

UpdateCastFails(dataToUpdate) ==
    Has(dataToUpdate, "salesAgent") /\ dataToUpdate.salesAgent[1] = "str"
\* ApplySet without $set: the update replaces the document.
ApplySet_Replace(doc, dataToUpdate) ==
    [f \in {"id"} \cup DOMAIN dataToUpdate |->
        IF Has(dataToUpdate, f) THEN dataToUpdate[f] ELSE doc[f]]

\* {$set: dataToUpdate} applied to a document.
ApplySet(doc, dataToUpdate) ==
    [f \in DOMAIN doc \cup DOMAIN dataToUpdate |->
        IF Has(dataToUpdate, f) THEN dataToUpdate[f] ELSE doc[f]]

\* Lead.findByIdAndUpdate(leadId, {$set: dataToUpdate}, {new: true, runValidators: true})
\* on collection coll: the updated document, or null when none has that id.
FindByIdAndUpdate(coll, leadId, dataToUpdate) ==
    IF UpdateCastFails(dataToUpdate) THEN CastError("salesAgent")
    ELSE IF UpdateSchemaErrors(dataToUpdate) # <<>>
    THEN ValidationError(UpdateSchemaErrors(dataToUpdate))
    ELSE IF leadId \in DOMAIN coll THEN Return(ApplySet(coll[leadId], dataToUpdate))
    ELSE Return(Null)

\* Lines 166-177, with `found` the result of line 165 and coll the collection
\* as it is when line 167 runs.
updateLeadFound(found, coll, leadId, dataToUpdate) ==
    IF found
    THEN LET updatedLead == FindByIdAndUpdate(coll, leadId, dataToUpdate)
         IN  Calling(<<"Lead.findById", "Lead.findByIdAndUpdate">>,
                     IF ~updatedLead.ok THEN updatedLead
                     ELSE IF updatedLead.value # Null THEN updatedLead
                     ELSE Undefined)
    ELSE Calling(<<"Lead.findById">>, Failure("NOT_FOUND", <<"Lead Not Found.">>))

updateLeadTry(leadId, dataToUpdate, down) ==
    IF ~ObjectIdIsValid([id |-> leadId], "id")
    THEN Failure("INVALID_ID_FORMAT", <<"Invalid Lead ID.">>)
    ELSE IF down THEN Calling(<<"Lead.findById">>, StoreDown)
    ELSE updateLeadFound(leadId \in DOMAIN leads, leads, leadId, dataToUpdate)

updateLead(leadId, dataToUpdate, down) ==
    LET r == updateLeadTry(leadId, dataToUpdate, down)
    IN  IF r.ok THEN r ELSE CatchValidationError(r)

\* app.put('/leads/:id')
PutLead(r) ==
    IF r.ok
    THEN IF ~IsUndefined(r) THEN Send(200, r.value) ELSE NoResponse
    ELSE CASE r.type = "INVALID_ID_FORMAT" -> Send(400, r.message)
           [] r.type = "NOT_FOUND" -> Send(404, r.message)
           [] r.type = "INVALID_INPUT" -> Send(400, r.message)
           [] OTHER -> Send(500, <<"Server Error">>)

UpdateLead(leadId, dataToUpdate, down) ==
    LET r == updateLead(leadId, dataToUpdate, down)
    IN  /\ leads' = IF Saved(r) THEN [leads EXCEPT ![leadId] = r.value] ELSE leads
        /\ last' = Handled("PUT /leads/:id", [id |-> leadId, body |-> dataToUpdate], down, r,
                           PutLead(r))
        /\ UNCHANGED <<agents, comments, tags, nextLead, reqs>>

(***************************************************************************)
(* Leads API (4): Delete a Lead.                                            *)
(***************************************************************************)
\* Lead.findByIdAndDelete(leadId): the deleted document, or null.
FindByIdAndDelete(coll, leadId) ==
    IF leadId \in DOMAIN coll THEN Return(coll[leadId]) ELSE Return(Null)

Remove(coll, id) == [k \in DOMAIN coll \ {id} |-> coll[k]]

\* Lines 219-226, with `found` the result of line 218.
deleteLeadFound(found, coll, leadId) ==
    IF found
    THEN Calling(<<"Lead.findById", "Lead.findByIdAndDelete">>,
                 IF FindByIdAndDelete(coll, leadId).value # Null
                 THEN Return("Lead deleted Successfully.")
                 ELSE Undefined)
    ELSE Calling(<<"Lead.findById">>,
                 Failure("NOT_FOUND", <<"Lead with ID '", "${leadId}", "' not found.">>))

deleteLead(leadId, down) ==
    IF ~ObjectIdIsValid([id |-> leadId], "id")
    THEN Failure("INVALID_ID_FORMAT", <<"Invalid Lead ID.">>)
    ELSE IF down THEN Calling(<<"Lead.findById">>, StoreDown)
    ELSE deleteLeadFound(leadId \in DOMAIN leads, leads, leadId)

\* app.delete('/leads/:id')
DeleteLeadRoute(r) ==
    IF r.ok
    THEN IF ~IsUndefined(r) THEN Send(200, [message |-> r.value]) ELSE NoResponse
    ELSE CASE r.type = "INVALID_ID_FORMAT" -> Send(400, r.message)
           [] r.type = "NOT_FOUND" -> Send(404, r.message)
           [] OTHER -> Send(500, <<"Server Error">>)

DeleteLead(leadId, down) ==
    LET r == deleteLead(leadId, down)
    IN  /\ leads' = IF Saved(r) THEN Remove(leads, leadId) ELSE leads
        /\ last' = Handled("DELETE /leads/:id", [id |-> leadId], down, r, DeleteLeadRoute(r))
        /\ UNCHANGED <<agents, comments, tags, nextLead, reqs>>

(***************************************************************************)
(* Sales Agent API (2): Get all sales agents.                               *)
(***************************************************************************)
Docs(coll) == {coll[k] : k \in DOMAIN coll}

\* The body of the four list operations that take no filter, and of the two
\* reports: the documents found, or NOT_FOUND when there is none.
FoundOrNotFound(call, found, message, down) ==
    Calling(<<call>>,
            IF down THEN StoreDown
            ELSE IF found # {} THEN Return(found)
            ELSE Failure("NOT_FOUND", message))

getAllSalesAgents(down) ==
    FoundOrNotFound("SalesAgent.find", Docs(agents), <<"Sales Agents Not Found.">>, down)

\* The route shared in shape by app.get('/agents'), app.get('/tags'),
\* app.get('/report/last-week'): 200, 404 for NOT_FOUND, 500 otherwise.
GetAgents(r) ==
    IF r.ok THEN Send(200, r.value)
    ELSE CASE r.type = "NOT_FOUND" -> Send(404, r.message)
           [] OTHER -> Send(500, <<"Server Error.">>)

ListAgents(down) ==
    LET r == getAllSalesAgents(down)
    IN  /\ last' = Handled("GET /agents", EmptyObj, down, r, GetAgents(r))
        /\ UNCHANGED <<agents, leads, comments, tags, nextLead, reqs>>

(***************************************************************************)
(* Comments API.                                                            *)
(***************************************************************************)
CommentSchemaErrors(doc) ==
    LET bad == SelectSeq(<<"lead", "commentText", "author">>,
                         LAMBDA p : ~Has(doc, p) \/ (p = "commentText" /\ doc[p] = ""))
    IN  [i \in 1..Len(bad) |-> "Comment validation failed: " \o bad[i]]

NewComment(id, leadId, commentData) ==
    ("id" :> id) @@ ("lead" :> leadId) @@ ("createdAt" :> DateNow) @@
        [f \in DOMAIN commentData \cap {"commentText", "author"} |-> commentData[f]]

\* addComments with the author checked before the leadId.
addCommentsTry_AuthorFirst(leadId, commentData, down) ==
    IF ~ObjectIdIsValid(commentData, "author")
    THEN Failure("INVALID_AGENT_ID", <<"Invalid Sales Agent ID.">>)
    ELSE IF ~ObjectIdIsValid([id |-> leadId], "id")
    THEN Failure("INVALID_LEAD_ID", <<"Invalid Lead ID.">>)
    ELSE IF down THEN Calling(<<"Lead.findById">>, StoreDown)
    ELSE IF leadId \in DOMAIN leads
    THEN LET newComment == NewComment(Oid("comment", Cardinality(DOMAIN comments) + 1),
                                      leadId, commentData)
             errors == CommentSchemaErrors(newComment)
         IN  Calling(<<"Lead.findById", "Comment.save">>,
                     IF errors # <<>> THEN ValidationError(errors) ELSE Return(newComment))
    ELSE Calling(<<"Lead.findById">>,
                 Failure("NOT_FOUND", <<"Lead with ID '", "${leadId}", "' not found.">>))

\* The try block of addComments (lines 336-355).
addCommentsTry(leadId, commentData, down) ==
    IF ~ObjectIdIsValid([id |-> leadId], "id")
    THEN Failure("INVALID_LEAD_ID", <<"Invalid Lead ID.">>)
    ELSE IF ~ObjectIdIsValid(commentData, "author")
    THEN Failure("INVALID_AGENT_ID", <<"Invalid Sales Agent ID.">>)
    ELSE IF down THEN Calling(<<"Lead.findById">>, StoreDown)
    ELSE IF leadId \in DOMAIN leads
    THEN LET newComment == NewComment(Oid("comment", Cardinality(DOMAIN comments) + 1),
                                      leadId, commentData)
             errors == CommentSchemaErrors(newComment)
         IN  Calling(<<"Lead.findById", "Comment.save">>,
                     IF errors # <<>> THEN ValidationError(errors) ELSE Return(newComment))
    ELSE Calling(<<"Lead.findById">>,
                 Failure("NOT_FOUND", <<"Lead with ID '", "${leadId}", "' not found.">>))

addComments(leadId, commentData, down) ==
    LET r == addCommentsTry(leadId, commentData, down)
    IN  IF r.ok THEN r ELSE CatchValidationError(r)

\* app.post('/leads/:id/comments'): the switch has no default case.
PostComments(r) ==
    IF r.ok THEN Send(201, r.value)
    ELSE CASE r.type = "INVALID_LEAD_ID" -> Send(400, r.message)
           [] r.type = "INVALID_AGENT_ID" -> Send(400, r.message)
           [] r.type = "NOT_FOUND" -> Send(404, r.message)
           [] r.type = "INVALID_INPUT" -> Send(400, r.message)
           [] OTHER -> NoResponse

AddComment(leadId, commentData, down) ==
    LET r == addComments(leadId, commentData, down)
    IN  /\ r.ok => Cardinality(DOMAIN comments) < MaxComments
        /\ comments' = IF r.ok THEN (r.value.id :> r.value) @@ comments ELSE comments
        /\ last' = Handled("POST /leads/:id/comments", [id |-> leadId, body |-> commentData],
                           down, r, PostComments(r))
        /\ UNCHANGED <<agents, leads, tags, nextLead, reqs>>

\* populate('author'): the reference replaced by the agent's document, or null.
PopulateAuthor(doc) ==
    [doc EXCEPT !.author = IF @ \in DOMAIN agents THEN agents[@] ELSE Null]

getAllComments(leadId, down) ==
    IF ~ObjectIdIsValid([id |-> leadId], "id")
    THEN Failure("INVALID_ID_FORMAT", <<"Invalid Lead ID Format.">>)
    ELSE FoundOrNotFound("Comment.find",
                         {PopulateAuthor(c) : c \in {d \in Docs(comments) : d.lead = leadId}},
                         <<"Comments for lead ID '", "${leadId}", "' not found.">>, down)

\* app.get('/leads/:id/comments')
GetComments(r) ==
    IF r.ok THEN Send(200, r.value)
    ELSE CASE r.type = "INVALID_ID_FORMAT" -> Send(400, r.message)
           [] r.type = "NOT_FOUND" -> Send(404, r.message)
           [] OTHER -> Send(500, <<"Server Error.">>)

ListComments(leadId, down) ==
    LET r == getAllComments(leadId, down)
    IN  /\ last' = Handled("GET /leads/:id/comments", [id |-> leadId], down, r, GetComments(r))
        /\ UNCHANGED <<agents, leads, comments, tags, nextLead, reqs>>

(***************************************************************************)
(* Reporting API.                                                           *)
(***************************************************************************)
\* Lead.find({closedAt: {$gte: sevenDaysAgo}}): every timestamp of the model is
\* DateNow, which is within the last seven days.
leadsClosedLastWeek(down) ==
    FoundOrNotFound("Lead.find", {d \in Docs(leads) : Has(d, "closedAt")},
                    <<"No Closed Leads for Last Week found.">>, down)

ReportLastWeek(down) ==
    LET r == leadsClosedLastWeek(down)
    IN  /\ last' = Handled("GET /report/last-week", EmptyObj, down, r, GetAgents(r))
        /\ UNCHANGED <<agents, leads, comments, tags, nextLead, reqs>>

\* Lead.find({status: {$ne: 'Closed'}}), then its length.
getTotalLeadsInPipeline(down) ==
    LET r == FoundOrNotFound("Lead.find", {d \in Docs(leads) : d.status # "Closed"},
                             <<"No Leads Found.">>, down)
    IN  IF r.ok THEN [r EXCEPT !.value = Cardinality(r.value)] ELSE r

\* app.get('/report/pipeline')
GetPipeline(r) ==
    IF r.ok
    THEN IF r.value # 0 THEN Send(200, [totalLeadsInPipeline |-> r.value]) ELSE NoResponse
    ELSE CASE r.type = "NOT_FOUND" -> Send(404, r.message)
           [] OTHER -> Send(500, <<"Server Error.">>)

ReportPipeline(down) ==
    LET r == getTotalLeadsInPipeline(down)
    IN  /\ last' = Handled("GET /report/pipeline", EmptyObj, down, r, GetPipeline(r))
        /\ UNCHANGED <<agents, leads, comments, tags, nextLead, reqs>>

(***************************************************************************)
(* Tag API.                                                                 *)
(***************************************************************************)
\* The Tag schema: name is required and unique.
TagSchemaErrors(doc) ==
    IF ~Has(doc, "name") \/ doc.name = "" THEN <<"Tag validation failed: name">> ELSE <<>>

TagNameTaken(coll, name) == \E t \in DOMAIN coll : coll[t].name = name

\* newTag.save(): validation, then the insert under the unique index.
SaveTag(id, tagObj, down) ==
    LET newTag == ("id" :> id) @@ [f \in DOMAIN tagObj \cap {"name"} |-> tagObj[f]]
        errors == TagSchemaErrors(newTag)
    IN  Calling(<<"Tag.save">>,
                IF errors # <<>> THEN ValidationError(errors)
                ELSE IF down THEN StoreDown
                ELSE IF TagNameTaken(tags, newTag.name) THEN DuplicateKeyError
                ELSE Return(newTag))

addNewTagCatch(e) ==
    IF e.name = "ValidationError"
    THEN Caught(e, Failure("INVALID_INPUT", <<"Invalid Input: ">> \o Join(e.message)))
    ELSE IF e.name = "MongoServerError" /\ e.code = 11000
    THEN Caught(e, Failure("DUPLICATE_KEY",
                           <<"Tag with name '", "${tagObj.name}", "' already exists.'">>))
    ELSE e

addNewTag(tagObj, down) ==
    LET r == SaveTag(Oid("tag", Cardinality(DOMAIN tags) + 1), tagObj, down)
    IN  IF r.ok THEN r ELSE addNewTagCatch(r)

\* app.post('/tags')
PostTags(r) ==
    IF r.ok THEN Send(200, [message |-> "New Tag Created Successfully!"])
    ELSE CASE r.type = "INVALID_INPUT" -> Send(400, r.message)
           [] r.type = "DUPLICATE_KEY" -> Send(409, r.message)
           [] OTHER -> Send(500, <<"Server Error.">>)

AddTag(tagObj, down) ==
    LET r == addNewTag(tagObj, down)
    IN  /\ r.ok => Cardinality(DOMAIN tags) < MaxTags
        /\ tags' = IF r.ok THEN (r.value.id :> r.value) @@ tags ELSE tags
        /\ last' = Handled("POST /tags", [body |-> tagObj], down, r, PostTags(r))
        /\ UNCHANGED <<agents, leads, comments, nextLead, reqs>>

getAllTags(down) == FoundOrNotFound("Tag.find", Docs(tags), <<"No Tags Found.">>, down)

ListTags(down) ==
    LET r == getAllTags(down)
    IN  /\ last' = Handled("GET /tags", EmptyObj, down, r, GetAgents(r))
        /\ UNCHANGED <<agents, leads, comments, tags, nextLead, reqs>>

(***************************************************************************)
(* Requests the environment sends.                                          *)
(***************************************************************************)
AgentIds == {Oid("agent", n) : n \in 1..MaxAgents}

LeadIds == {Oid("lead", n) : n \in 1..MaxLeads}

TagIds == {Oid("tag", n) : n \in 1..MaxTags}

AgentInputs ==
    {[name |-> "Asha", email |-> "a@x.com"], [email |-> "a@x.com"], [name |-> "", email |-> ""]}

BaseLead == [name |-> "Acme", source |-> "Website", timeToClose |-> 30]

ClosedLead == [status |-> "Closed", source |-> "Referral", tags |-> TagIds]

LeadInputs ==
    {x @@ [salesAgent |-> a] @@ BaseLead : x \in {EmptyObj, ClosedLead}, a \in AgentIds}
        \cup {x @@ [salesAgent |-> Oid("lead", 1)] @@ BaseLead :
                 x \in {EmptyObj, [status |-> "Closed"]}}
        \cup {[salesAgent |-> NotAnId] @@ BaseLead, BaseLead,
              [status |-> "Archived", name |-> ""] @@ [salesAgent |-> Oid("agent", 1)] @@ BaseLead}

UpdateInputs ==
    {EmptyObj, [status |-> "Closed", priority |-> "High"], [status |-> "Archived", name |-> ""],
     [salesAgent |-> Oid("agent", MaxAgents)], [salesAgent |-> NotAnId]}

IdInputs == LeadIds \cup {NotAnId}

QueryInputs ==
    {EmptyObj, [status |-> "Closed"], [status |-> "Archived"], [status |-> ""],
     [source |-> "Referral"], [source |-> "Fax"],
     [salesAgent |-> NotAnId, status |-> "Archived", source |-> "Fax"],
     [salesAgent |-> NotAnId, source |-> ""],
     [tags |-> Oid("tag", 1)], [tags |-> NotAnId],
     [name |-> "Nobody"],
     [salesAgent |-> Oid("agent", 1), status |-> "New"]}

Idle == Handled("none", EmptyObj, FALSE, Return(EmptyObj), NoResponse)

Init ==
    /\ agents = EmptyObj
    /\ leads = EmptyObj
    /\ comments = EmptyObj
    /\ tags = EmptyObj
    /\ nextLead = 0
    /\ last = Idle
    /\ reqs = <<>>

Next ==
    \/ \E agentData \in AgentInputs : CreateAgent(agentData, FALSE)
    \/ \E details \in LeadInputs : CreateLead(details, FALSE)
    \/ \E query \in QueryInputs : ListLeads(query, FALSE)
    \/ \E leadId \in IdInputs, data \in UpdateInputs : UpdateLead(leadId, data, FALSE)
    \/ \E leadId \in IdInputs : DeleteLead(leadId, FALSE)

Spec == Init /\ [][Next]_vars

(***************************************************************************)
(* The twelve routes, with a store that may reject the calls of a request.  *)
(***************************************************************************)
RouteAgentInputs == {[name |-> "Asha", email |-> "a@x.com"], [email |-> "a@x.com"]}

RouteLeadInputs ==
    {[salesAgent |-> Oid("agent", 1)] @@ BaseLead,
     [salesAgent |-> Oid("lead", 1)] @@ BaseLead,
     [status |-> "Closed"] @@ BaseLead}

RouteQueryInputs == {EmptyObj, [status |-> "Archived"], [tags |-> NotAnId]}

RouteUpdateInputs == {[status |-> "Closed"], [salesAgent |-> NotAnId]}

RouteIdInputs == {Oid("lead", 1), NotAnId}

CommentInputs ==
    {[commentText |-> "call back", author |-> Oid("agent", 1)],
     [commentText |-> "call back", author |-> NotAnId],
     [author |-> Oid("agent", 1)],
     [commentText |-> "call back"]}

TagInputs == {[name |-> "vip"], EmptyObj}

NextRoutes ==
    \/ \E agentData \in RouteAgentInputs, down \in BOOLEAN : CreateAgent(agentData, down)
    \/ \E details \in RouteLeadInputs, down \in BOOLEAN : CreateLead(details, down)
    \/ \E query \in RouteQueryInputs, down \in BOOLEAN : ListLeads(query, down)
    \/ \E leadId \in RouteIdInputs, data \in RouteUpdateInputs, down \in BOOLEAN :
           UpdateLead(leadId, data, down)
    \/ \E leadId \in RouteIdInputs, down \in BOOLEAN : DeleteLead(leadId, down)
    \/ \E down \in BOOLEAN : ListAgents(down)
    \/ \E leadId \in RouteIdInputs, commentData \in CommentInputs, down \in BOOLEAN :
           AddComment(leadId, commentData, down)
    \/ \E leadId \in RouteIdInputs, down \in BOOLEAN : ListComments(leadId, down)
    \/ \E down \in BOOLEAN : ReportLastWeek(down)
    \/ \E down \in BOOLEAN : ReportPipeline(down)
    \/ \E tagObj \in TagInputs, down \in BOOLEAN : AddTag(tagObj, down)
    \/ \E down \in BOOLEAN : ListTags(down)

SpecRoutes == Init /\ [][NextRoutes]_vars

(***************************************************************************)
(* Requests in flight together. A handler runs without interruption up to   *)
(* each await; the store executes one call at a time, in any order among    *)
(* the requests that wait for one. A request is recorded from the moment    *)
(* the first store call of its handler has been answered.                   *)
(***************************************************************************)
InFlight(op, req, pc, found, r, sent) ==
    [op |-> op, req |-> req, pc |-> pc, found |-> found, result |-> r, sent |-> sent]

Pending == Return(EmptyObj)

\* updateLead up to the answer of Lead.findById (line 165).
BeginUpdateLead(leadId, dataToUpdate) ==
    LET valid == ObjectIdIsValid([id |-> leadId], "id")
        found == valid /\ leadId \in DOMAIN leads
        r == updateLead(leadId, dataToUpdate, FALSE)
        req == [id |-> leadId, body |-> dataToUpdate]
    IN  /\ Len(reqs) < MaxRequests
        /\ reqs' = Append(reqs,
                      IF found
                      THEN InFlight("PUT /leads/:id", req, "found", TRUE, Pending, NoResponse)
                      ELSE InFlight("PUT /leads/:id", req, "done", FALSE, r, PutLead(r)))
        /\ UNCHANGED <<agents, leads, comments, tags, nextLead, last>>

\* updateLead from Lead.findByIdAndUpdate (line 167) to the response.
FinishUpdateLead(i) ==
    LET leadId == reqs[i].req.id
        u == updateLeadFound(TRUE, leads, leadId, reqs[i].req.body)
        r == IF u.ok THEN u ELSE CatchValidationError(u)
    IN  /\ reqs[i].op = "PUT /leads/:id"
        /\ reqs[i].pc = "found"
        /\ leads' = IF Saved(r) THEN [leads EXCEPT ![leadId] = r.value] ELSE leads
        /\ reqs' = [reqs EXCEPT ![i].pc = "done", ![i].result = r, ![i].sent = PutLead(r)]
        /\ UNCHANGED <<agents, comments, tags, nextLead, last>>

\* deleteLead up to the answer of Lead.findById (line 218).
BeginDeleteLead(leadId) ==
    LET valid == ObjectIdIsValid([id |-> leadId], "id")
        found == valid /\ leadId \in DOMAIN leads
        r == deleteLead(leadId, FALSE)
        req == [id |-> leadId]
    IN  /\ Len(reqs) < MaxRequests
        /\ reqs' = Append(reqs,
                      IF found
                      THEN InFlight("DELETE /leads/:id", req, "found", TRUE, Pending, NoResponse)
                      ELSE InFlight("DELETE /leads/:id", req, "done", FALSE, r,
                                    DeleteLeadRoute(r)))
        /\ UNCHANGED <<agents, leads, comments, tags, nextLead, last>>

\* deleteLead from Lead.findByIdAndDelete (line 220) to the response.
FinishDeleteLead(i) ==
    LET leadId == reqs[i].req.id
        r == deleteLeadFound(TRUE, leads, leadId)
    IN  /\ reqs[i].op = "DELETE /leads/:id"
        /\ reqs[i].pc = "found"
        /\ leads' = IF Saved(r) THEN Remove(leads, leadId) ELSE leads
        /\ reqs' = [reqs EXCEPT ![i].pc = "done", ![i].result = r,
                                ![i].sent = DeleteLeadRoute(r)]
        /\ UNCHANGED <<agents, comments, tags, nextLead, last>>

\* createNewSalesAgent up to newAgent.save() being issued (line 262).
BeginCreateAgent(agentData) ==
    /\ Len(reqs) < MaxRequests
    /\ reqs' = Append(reqs, InFlight("POST /agents", [body |-> agentData], "save", FALSE,
                                     Pending, NoResponse))
    /\ UNCHANGED <<agents, leads, comments, tags, nextLead, last>>

\* The store executing the save, and the handler's response. `found` records
\* whether an agent with the request's email was persisted when the save ran.
FinishCreateAgent(i) ==
    LET agentData == reqs[i].req.body
        id == Oid("agent", Cardinality(DOMAIN agents) + 1)
        r == createNewSalesAgent(agents, id, agentData, FALSE)
    IN  /\ reqs[i].op = "POST /agents"
        /\ reqs[i].pc = "save"
        /\ Saved(r) => Cardinality(DOMAIN agents) < MaxAgents
        /\ agents' = IF Saved(r) THEN (id :> r.value) @@ agents ELSE agents
        /\ reqs' = [reqs EXCEPT ![i].pc = "done", ![i].result = r, ![i].sent = PostAgents(r),
                                ![i].found = Has(agentData, "email")
                                                 /\ EmailTaken(agents, agentData.email)]
        /\ UNCHANGED <<leads, comments, tags, nextLead, last>>

ConcAgentInputs ==
    {[name |-> "Asha", email |-> "a@x.com"], [name |-> "Bo", email |-> "b@x.com"],
     [email |-> "a@x.com"]}

ConcLeadInputs == {[salesAgent |-> Oid("agent", 1)] @@ BaseLead}

ConcUpdateInputs == {[status |-> "Closed"]}

NextConc ==
    \/ \E details \in ConcLeadInputs : CreateLead(details, FALSE)
    \/ \E agentData \in ConcAgentInputs : BeginCreateAgent(agentData)
    \/ \E i \in DOMAIN reqs : FinishCreateAgent(i)
    \/ \E leadId \in LeadIds, data \in ConcUpdateInputs : BeginUpdateLead(leadId, data)
    \/ \E i \in DOMAIN reqs : FinishUpdateLead(i)
    \/ \E leadId \in LeadIds : BeginDeleteLead(leadId)
    \/ \E i \in DOMAIN reqs : FinishDeleteLead(i)

SpecConc == Init /\ [][NextConc]_vars

(***************************************************************************)
(* Properties.                                                              *)
(***************************************************************************)
Range(seq) == {seq[i] : i \in 1..Len(seq)}

Responded(code) == Len(last.sent) = 1 /\ last.sent[1].status = code

Threw(type) == ~last.result.ok /\ last.result.type = type

\* C1: every persisted Lead has closedAt set if and only if its status is
\* Closed.
C1_ClosedAtIffClosed ==
    \A l \in DOMAIN leads : Has(leads[l], "closedAt") <=> leads[l].status = "Closed"

\* C2: the salesAgent of every persisted Lead is the identifier of a SalesAgent
\* in the store.
C2_SalesAgentExists ==
    \A l \in DOMAIN leads : leads[l].salesAgent \in DOMAIN agents

\* C3: a Create Lead call whose salesAgent has the identifier format and matches
\* no stored SalesAgent, answered by the store, fails with NOT_FOUND, is answered
\* 404 once, and changes no collection.
C3_UnknownAgentNotFound ==
    [][(/\ last'.op = "POST /leads"
        /\ ~last'.down
        /\ Has(last'.req.body, "salesAgent")
        /\ last'.req.body.salesAgent[1] # "str"
        /\ last'.req.body.salesAgent \notin DOMAIN agents)
       => (/\ ~last'.result.ok
           /\ last'.result.type = "NOT_FOUND"
           /\ Len(last'.sent) = 1
           /\ last'.sent[1].status = 404
           /\ store' = store)]_vars

C3_Witness ==
    /\ last.op = "POST /leads"
    /\ Has(last.req.body, "salesAgent")
    /\ last.req.body.salesAgent = Oid("lead", 1)
    /\ last.req.body.salesAgent \notin DOMAIN agents
    /\ Threw("NOT_FOUND")
    /\ Responded(404)
    /\ agents # EmptyObj
    /\ leads # EmptyObj

\* The filters of a List Leads call that the claim counts as violated: supplied
\* with a value that is not an identifier (salesAgent), not one of the five
\* statuses (status), not one of the six sources (source).
C5_Violated(query) ==
    {f \in DOMAIN query \cap {"salesAgent", "status", "source"} :
        CASE f = "salesAgent" -> query[f][1] = "str"
          [] f = "status" -> query[f] \notin LeadStatuses
          [] f = "source" -> query[f] \notin LeadSources}

\* Those among them whose value is not the empty string.
C5_ViolatedNonEmpty(query) ==
    {f \in C5_Violated(query) : IF f = "salesAgent" THEN query[f] # Str(0) ELSE query[f] # ""}

C5_Message(f) ==
    CASE f = "salesAgent" -> SalesAgentFilterMessage
      [] f = "status" -> StatusFilterMessage
      [] f = "source" -> SourceFilterMessage

C5_InvalidInputOf(fields) ==
    /\ Threw("INVALID_INPUT")
    /\ \A f \in fields : C5_Message(f) \in Range(last.result.message)
    /\ last.result.calls = <<>>
    /\ Responded(400)

\* C5 as stated: a List Leads call with at least one of salesAgent, status,
\* source supplied with an invalid value fails with one INVALID_INPUT whose
\* message holds the message of every violated filter, and issues no query.
C5_Original ==
    (last.op = "GET /leads" /\ C5_Violated(last.req.query) # {})
        => C5_InvalidInputOf(C5_Violated(last.req.query))

\* C5 amended: a List Leads call with at least one of salesAgent, status, source
\* supplied with a non-empty invalid value fails with one INVALID_INPUT whose
\* message holds the message of every filter supplied with a non-empty invalid
\* value, is answered 400, and issues no query.
C5_InvalidFiltersRejected ==
    (last.op = "GET /leads" /\ C5_ViolatedNonEmpty(last.req.query) # {})
        => C5_InvalidInputOf(C5_ViolatedNonEmpty(last.req.query))

C5_Witness ==
    /\ last.op = "GET /leads"
    /\ C5_ViolatedNonEmpty(last.req.query) = {"salesAgent", "status", "source"}
    /\ Threw("INVALID_INPUT")
    /\ Len(last.result.message) = 4
    /\ leads # EmptyObj

\* The filters among the four that are supplied and not skipped (an empty value
\* is skipped by lines 97-119).
C6_Applied(query) ==
    {f \in DOMAIN query \cap {"salesAgent", "status", "tags", "source"} :
        IF f \in {"salesAgent", "tags"} THEN query[f] # Str(0) ELSE query[f] # ""}

C6_Valid(query, f) ==
    CASE f \in {"salesAgent", "tags"} -> query[f][1] # "str"
      [] f = "status" -> query[f] \in LeadStatuses
      [] f = "source" -> query[f] \in LeadSources

C6_Expected(query) ==
    {l \in DOMAIN leads :
        \A f \in C6_Applied(query) :
            IF f = "tags" THEN query[f] \in leads[l].tags ELSE leads[l][f] = query[f]}

\* C6: a List Leads call whose supplied filters among salesAgent, status, tags,
\* source are all valid returns exactly the Leads that match every supplied
\* filter (a filter not supplied or skipped constrains nothing), and fails with
\* NOT_FOUND if and only if there is none.
C6_ListReturnsMatches ==
    (/\ last.op = "GET /leads"
     /\ ~last.down
     /\ \A f \in C6_Applied(last.req.query) : C6_Valid(last.req.query, f))
        => /\ last.result.ok \/ Threw("NOT_FOUND")
           /\ Threw("NOT_FOUND") <=> C6_Expected(last.req.query) = {}
           /\ last.result.ok => {d.id : d \in last.result.value} = C6_Expected(last.req.query)

C7_ValidFields(data) ==
    /\ Has(data, "name") => data.name # ""
    /\ Has(data, "source") => data.source \in LeadSources
    /\ Has(data, "status") => data.status \in LeadStatuses
    /\ Has(data, "salesAgent") => data.salesAgent[1] # "str"

\* C7: Update Lead with an id of the identifier format that matches no Lead
\* fails with NOT_FOUND and leaves the store unchanged; with the id of a Lead and
\* valid partial fields, the returned and persisted Lead has each supplied field
\* replaced and every other field as before, and every other Lead is unchanged.
C7_UpdateMergesPartialFields ==
    [][(last'.op = "PUT /leads/:id" /\ ~last'.down /\ last'.req.id[1] # "str")
       => LET id == last'.req.id
              data == last'.req.body
          IN  /\ id \notin DOMAIN leads
                    => /\ ~last'.result.ok
                       /\ last'.result.type = "NOT_FOUND"
                       /\ last'.sent[1].status = 404
                       /\ store' = store
              /\ (id \in DOMAIN leads /\ C7_ValidFields(data))
                    => /\ last'.result.ok
                       /\ Len(last'.sent) = 1
                       /\ last'.sent[1].status = 200
                       /\ last'.sent[1].body = leads'[id]
                       /\ DOMAIN leads' = DOMAIN leads
                       /\ DOMAIN leads'[id] = DOMAIN leads[id] \cup DOMAIN data
                       /\ \A f \in DOMAIN data : leads'[id][f] = data[f]
                       /\ \A f \in DOMAIN leads[id] \ DOMAIN data : leads'[id][f] = leads[id][f]
                       /\ \A l \in DOMAIN leads \ {id} : leads'[l] = leads[l]
                       /\ <<agents, comments, tags, nextLead>>' = <<agents, comments, tags, nextLead>>]_vars

C7_Witness ==
    /\ last.op = "PUT /leads/:id"
    /\ last.result.ok
    /\ last.req.body = [status |-> "Closed", priority |-> "High"]
    /\ Responded(200)
    /\ Cardinality(DOMAIN leads) = 2
    /\ leads[last.req.id].source = "Website"
    /\ leads[last.req.id].priority = "High"
    /\ \E l \in DOMAIN leads : leads[l].status = "New"

\* The library errors no route maps to 400, 404 or 409.
C4_Unclassified == {"MongoNetworkError", "CastError"}

\* C4: on every route, an operation that fails with a failure the route does
\* not map to 400, 404 or 409 is answered with status 500.
C4_UnmappedFailureAnswered500 ==
    (last.op # "none" /\ last.result.raised \in C4_Unclassified) => Responded(500)

\* C8: Add Comment fails with INVALID_LEAD_ID when leadId has not the identifier
\* format, with INVALID_AGENT_ID when leadId has it and author has not, with
\* NOT_FOUND when both have it and the store holds no Lead of that id; in each
\* case no Comment is saved and the Comment collection is unchanged.
C8_AddCommentFailsBeforeSave ==
    [][(last'.op = "POST /leads/:id/comments")
       => LET leadIdOk == last'.req.id[1] # "str"
              authorOk == Has(last'.req.body, "author") /\ last'.req.body.author[1] # "str"
              r == last'.result
              unsaved == /\ "Comment.save" \notin Range(r.calls)
                         /\ comments' = comments
          IN  /\ ~leadIdOk
                    => ~r.ok /\ r.type = "INVALID_LEAD_ID" /\ r.calls = <<>> /\ unsaved
              /\ (leadIdOk /\ ~authorOk)
                    => ~r.ok /\ r.type = "INVALID_AGENT_ID" /\ r.calls = <<>> /\ unsaved
              /\ (leadIdOk /\ authorOk /\ ~last'.down /\ last'.req.id \notin DOMAIN leads)
                    => ~r.ok /\ r.type = "NOT_FOUND" /\ unsaved]_vars

C8_Witness ==
    /\ last.op = "POST /leads/:id/comments"
    /\ Threw("NOT_FOUND")
    /\ Responded(404)
    /\ last.req.id[1] = "lead"
    /\ comments # EmptyObj
    /\ leads # EmptyObj

C9_Done == {i \in DOMAIN reqs : reqs[i].op = "POST /agents" /\ reqs[i].pc = "done"}

C9_UniqueEmails ==
    \A a, b \in DOMAIN agents : a # b => agents[a].email # agents[b].email

C9_Answered(i, code) == Len(reqs[i].sent) = 1 /\ reqs[i].sent[1].status = code

C9_Duplicate(i) ==
    ~reqs[i].result.ok /\ reqs[i].result.type = "DUPLICATE_KEY" /\ C9_Answered(i, 409)

C9_PassesValidation(body) ==
    /\ Has(body, "name") /\ body.name # ""
    /\ Has(body, "email") /\ body.email # ""

\* C9 as stated: no two persisted SalesAgents have the same email, and every
\* Create Agent call whose email was that of a persisted agent when it was saved
\* failed with DUPLICATE_KEY and was answered 409.
C9_Original ==
    /\ C9_UniqueEmails
    /\ \A i \in C9_Done : reqs[i].found => C9_Duplicate(i)

\* C9 amended: no two persisted SalesAgents have the same email; a Create Agent
\* call that passes validation and whose email is that of a persisted agent
\* fails with DUPLICATE_KEY, is answered 409 and leaves the agents unchanged;
\* among the completed calls that pass validation and carry one email, exactly
\* one was answered 201.
C9_UniqueEmailOrDuplicateKey ==
    [][/\ C9_UniqueEmails'
       /\ \A i \in DOMAIN reqs :
              (/\ reqs[i].op = "POST /agents"
               /\ reqs[i].pc = "save"
               /\ reqs'[i].pc = "done"
               /\ C9_PassesValidation(reqs[i].req.body))
              => IF EmailTaken(agents, reqs[i].req.body.email)
                 THEN C9_Duplicate(i)' /\ agents' = agents
                 ELSE C9_Answered(i, 201)'
                      /\ DOMAIN agents' # DOMAIN agents
                      /\ \E a \in DOMAIN agents' : agents'[a].email = reqs[i].req.body.email
       /\ \A i \in C9_Done' :
              C9_PassesValidation(reqs'[i].req.body)
              => Cardinality({j \in C9_Done' :
                                 /\ reqs'[j].req.body = reqs'[i].req.body
                                 /\ C9_Answered(j, 201)'}) = 1]_vars

\* The request that began first was saved second: the two were in flight
\* together.
C9_Witness ==
    /\ Len(reqs) >= 2
    /\ reqs[1].op = "POST /agents" /\ reqs[2].op = "POST /agents"
    /\ reqs[1].req.body = reqs[2].req.body
    /\ C9_PassesValidation(reqs[1].req.body)
    /\ C9_Duplicate(1)
    /\ C9_Answered(2, 201)
    /\ Cardinality(DOMAIN agents) = 1

\* C10: of an Update Lead or Delete Lead request and a Delete Lead request for
\* the same id, each one that has run to its end was answered exactly once, with
\* 200 or with 404.
C10_EveryRequestAnswered ==
    \A i \in DOMAIN reqs :
        (/\ reqs[i].op \in {"PUT /leads/:id", "DELETE /leads/:id"}
         /\ reqs[i].pc = "done"
         /\ \E j \in DOMAIN reqs \ {i} :
                reqs[j].op = "DELETE /leads/:id" /\ reqs[j].req.id = reqs[i].req.id)
        => /\ Len(reqs[i].sent) = 1
           /\ reqs[i].sent[1].status \in {200, 404}

====
